---- MODULE Spec2Model ----
(***************************************************************************)
(* State-machine model of the devtool-demo components:                     *)
(*   - HexView (src/js/hex-view.js): constructor, setData, clear, render,  *)
(*     renderRow, byteToAscii and the hover handlers of bindEvents;        *)
(*   - Utils.bytesToHex / Utils.hexToBytes (src/unnamed/part_002);         *)
(*   - Hash.calculate and UUID.v3 / v4 / v5 / parse / format, with the     *)
(*     calls that are suspended at an await (src/unnamed/part_002);        *)
(*   - FileUpload.handleFile / clear and the reads in flight;              *)
(*   - ThemeManager.init / setTheme / toggle and its listeners;            *)
(*   - CodeTabs.setExamples / setActiveTab (src/unnamed/part_001);         *)
(*   - Utils.debounce with its timer.                                      *)
(* JavaScript strings are sequences of one-character strings; a Uint8Array *)
(* is a sequence of integers in 0..255.                                    *)
(***************************************************************************)
EXTENDS Integers, Sequences, FiniteSets, TLC

VARIABLES
  ctorOptions,       \* the options argument given to new HexView(container, options)
  options,           \* this.options
  data,              \* this.data: [null |-> BOOLEAN, bytes |-> Uint8Array]
  highlightedIndex,  \* this.highlightedIndex
  view,              \* this.container.innerHTML, as a structure
  highlighted,       \* the elements of the container that carry class "highlight"
  thrown,            \* the exception the last render ended with ("none" if it returned)
  lastEvent,         \* history: the last HexView operation, and the cell a mouseenter hit
  hexArg,            \* Utils: the argument of the last conversion call
  hexResult,         \* Utils: what the last conversion call produced
  cryptoJS,          \* whether the global CryptoJS is defined
  random,            \* the 16 bytes the next crypto.getRandomValues call delivers
  nextId,            \* Hash/UUID: number of calls made so far, plus one
  pending,           \* Hash/UUID: the calls suspended at an await, by call number
  done,              \* Hash/UUID: the settled calls with what they settled to
  uploadOptions,     \* FileUpload: this.options
  file,              \* FileUpload: this.file
  fileData,          \* FileUpload: this.fileData
  reads,             \* FileUpload: the FileReader reads in flight
  errorShown,        \* FileUpload: the message showError displayed last
  lastUpload,        \* FileUpload history: the last operation and the state before it
  storage,           \* ThemeManager: localStorage value under STORAGE_KEY
  dataTheme,         \* ThemeManager: the data-theme attribute of the document
  systemDark,        \* ThemeManager: matchMedia("(prefers-color-scheme: dark)").matches
  bound,             \* ThemeManager: whether bindEvents has attached the listeners
  userChose,         \* ThemeManager history: whether the toggle was ever clicked
  lastTheme,         \* ThemeManager history: the last two operations
  tabsOptions,       \* CodeTabs: this.options
  tabs,              \* CodeTabs: this.tabs
  activeIndex,       \* CodeTabs: this.activeIndex
  tabButtons,        \* CodeTabs: the .code-tab elements, TRUE where class "active" is set
  panels,            \* CodeTabs: the .code-panel elements, TRUE where class "active" is set
  lastTabs,          \* CodeTabs history: the last operation and the state before it
  wait,              \* debounce: the wait argument
  now,               \* debounce: the time
  timeout,           \* debounce: the closure variable timeout, a timer id (0: undefined)
  timers,            \* debounce: the timers set with setTimeout and not yet run or cleared
  log                \* debounce history: the calls and the invocations of func, in order

vars == <<ctorOptions, options, data, highlightedIndex, view, highlighted, thrown,
          lastEvent, hexArg, hexResult, cryptoJS, random, nextId, pending, done,
          uploadOptions, file, fileData, reads, errorShown, lastUpload,
          storage, dataTheme, systemDark, bound, userChose, lastTheme,
          tabsOptions, tabs, activeIndex, tabButtons, panels, lastTabs,
          wait, now, timeout, timers, log>>

hexViewVars ==
  <<ctorOptions, options, data, highlightedIndex, view, highlighted, thrown, lastEvent>>
utilsVars == <<hexArg, hexResult>>
asyncVars == <<cryptoJS, random, nextId, pending, done>>
uploadVars == <<uploadOptions, file, fileData, reads, errorShown, lastUpload>>
themeVars == <<storage, dataTheme, systemDark, bound, userChose, lastTheme>>
\* everything outside one component
tabsVars == <<tabsOptions, tabs, activeIndex, tabButtons, panels, lastTabs>>
debounceVars == <<wait, now, timeout, timers, log>>
besidesHexView == <<utilsVars, asyncVars, uploadVars, themeVars, tabsVars, debounceVars>>
besidesUtils == <<hexViewVars, asyncVars, uploadVars, themeVars, tabsVars, debounceVars>>
besidesAsync == <<hexViewVars, utilsVars, uploadVars, themeVars, tabsVars, debounceVars>>
besidesUpload == <<hexViewVars, utilsVars, asyncVars, themeVars, tabsVars, debounceVars>>
besidesTheme == <<hexViewVars, utilsVars, asyncVars, uploadVars, tabsVars, debounceVars>>
besidesTabs == <<hexViewVars, utilsVars, asyncVars, uploadVars, themeVars, debounceVars>>
besidesDebounce == <<hexViewVars, utilsVars, asyncVars, uploadVars, themeVars, tabsVars>>

(***************************************************************************)
(* Bounds of the model                                                     *)
(***************************************************************************)
MaxLen == 17          \* longest buffer handed to setData
MaxHover == 6         \* the pointer visits the cells of byte index below MaxHover
MaxText == 1          \* longest string handed to setData
MaxHexLen == 3        \* longest string handed to Utils.hexToBytes
MaxBufLen == 2        \* longest buffer handed to Utils.bytesToHex

(***************************************************************************)
(* Program constants                                                       *)
(***************************************************************************)
DefaultBytesPerRow == 16
DefaultMaxRows == 100

Min(a, b) == IF a < b THEN a ELSE b
Max(a, b) == IF a > b THEN a ELSE b

Bytes == 0..255

(***************************************************************************)
(* Number.prototype.toString(radix), String.prototype.padStart,            *)
(* toUpperCase and parseInt, for the radices and characters the code uses. *)
(***************************************************************************)
Digits == <<"0", "1", "2", "3", "4", "5", "6", "7", "8", "9",
            "a", "b", "c", "d", "e", "f">>
UpperDigits == <<"0", "1", "2", "3", "4", "5", "6", "7", "8", "9",
                 "A", "B", "C", "D", "E", "F">>

RECURSIVE NumToString(_, _)
NumToString(n, radix) ==
  IF n < 0 THEN <<"-">> \o NumToString(0 - n, radix)
  ELSE IF n < radix THEN <<Digits[n + 1]>>
  ELSE NumToString(n \div radix, radix) \o <<Digits[(n % radix) + 1]>>

ToUpperCase(s) ==
  [i \in 1..Len(s) |->
     IF \E d \in 1..16 : Digits[d] = s[i]
       THEN UpperDigits[CHOOSE d \in 1..16 : Digits[d] = s[i]]
       ELSE s[i]]

RECURSIVE PadStart(_, _, _)
PadStart(s, n, c) == IF Len(s) >= n THEN s ELSE PadStart(<<c>> \o s, n, c)

\* the value of character c as a digit of the radix, or -1
DigitValue(c, radix) ==
  IF \E d \in 1..radix : Digits[d] = c \/ UpperDigits[d] = c
    THEN (CHOOSE d \in 1..radix : Digits[d] = c \/ UpperDigits[d] = c) - 1
    ELSE -1

RECURSIVE SkipWhite(_)
SkipWhite(s) == IF Len(s) > 0 /\ s[1] = " " THEN SkipWhite(Tail(s)) ELSE s

RECURSIVE DigitPrefix(_, _)
DigitPrefix(s, radix) ==
  IF Len(s) > 0 /\ DigitValue(s[1], radix) >= 0
    THEN <<s[1]>> \o DigitPrefix(Tail(s), radix)
    ELSE <<>>

RECURSIVE DigitsValue(_, _)
DigitsValue(s, radix) ==
  IF Len(s) = 0 THEN 0
  ELSE DigitsValue(SubSeq(s, 1, Len(s) - 1), radix) * radix + DigitValue(s[Len(s)], radix)

\* parseInt(s, radix): [nan |-> BOOLEAN, value |-> Int]
ParseInt(s, radix) ==
  LET t == SkipWhite(s)
      neg == Len(t) > 0 /\ t[1] = "-"
      u == IF Len(t) > 0 /\ (t[1] = "-" \/ t[1] = "+") THEN Tail(t) ELSE t
      v == IF radix = 16 /\ Len(u) >= 2 /\ u[1] = "0" /\ (u[2] = "x" \/ u[2] = "X")
             THEN SubSeq(u, 3, Len(u)) ELSE u
      z == DigitPrefix(v, radix)
  IN IF Len(z) = 0 THEN [nan |-> TRUE, value |-> 0]
     ELSE [nan |-> FALSE, value |-> IF neg THEN 0 - DigitsValue(z, radix)
                                            ELSE DigitsValue(z, radix)]

\* the conversion a Uint8Array element store applies to a Number
ToUint8(p) == IF p.nan THEN 0 ELSE p.value % 256

\* TypedArray.prototype.slice(start, end) with relative (negative) indices
Slice(s, start, end) ==
  LET len == Len(s)
      from == IF start < 0 THEN Max(len + start, 0) ELSE Min(start, len)
      to == IF end < 0 THEN Max(len + end, 0) ELSE Min(end, len)
  IN SubSeq(s, from + 1, to)

\* TextEncoder.encode for code points below 0x800
RECURSIVE TextEncode(_)
TextEncode(str) ==
  IF Len(str) = 0 THEN <<>>
  ELSE (IF str[1] < 128 THEN <<str[1]>>
        ELSE <<192 + (str[1] \div 64), 128 + (str[1] % 64)>>) \o TextEncode(Tail(str))

(***************************************************************************)
(* HexView                                                                 *)
(***************************************************************************)
\* The text of an ASCII cell is a sequence of UTF-16 code units.
\* String.fromCharCode(byte) is the one-unit string of that code.
FromCharCode(byte) == <<byte>>
Lt == <<38, 108, 116, 59>>         \* "&lt;"
Gt == <<38, 103, 116, 59>>         \* "&gt;"
Amp == <<38, 97, 109, 112, 59>>    \* "&amp;"
Dot == <<46>>                      \* "."

\* an options object is a function from its own property names to their values
Has(o, k) == k \in DOMAIN o
NoProps == [k \in {} |-> 0]

\* constructor, hex-view.js:24-30: the defaults, then ...options over them
Constructor(o) ==
  LET defaults ==
        [bytesPerRow |-> IF Has(o, "bytesPerRow") /\ o["bytesPerRow"] # 0
                           THEN o["bytesPerRow"] ELSE DefaultBytesPerRow,
         showHeader |-> ~(Has(o, "showHeader") /\ o["showHeader"] = FALSE),
         showAscii |-> ~(Has(o, "showAscii") /\ o["showAscii"] = FALSE),
         maxRows |-> IF Has(o, "maxRows") /\ o["maxRows"] # 0
                       THEN o["maxRows"] ELSE DefaultMaxRows]
  IN [k \in DOMAIN defaults |-> IF Has(o, k) THEN o[k] ELSE defaults[k]]

NullData == [null |-> TRUE, bytes |-> <<>>]

\* setData, hex-view.js:51-59: the value this.data gets for an argument
ConvertData(arg) ==
  IF arg.type = "string" THEN [null |-> FALSE, bytes |-> TextEncode(arg.chars)]
  ELSE IF arg.type = "ArrayBuffer" THEN [null |-> FALSE, bytes |-> arg.bytes]
  ELSE IF arg.type = "Uint8Array" THEN [null |-> FALSE, bytes |-> arg.bytes]
  ELSE NullData

\* mutant of byteToAscii: the HTML special characters are not escaped
byteToAscii_Unescaped(byte) ==
  IF byte >= 32 /\ byte <= 126 THEN FromCharCode(byte) ELSE Dot

\* byteToAscii, hex-view.js:181-190
byteToAscii(byte) ==
  IF byte >= 32 /\ byte <= 126
    THEN IF byte = 60 THEN Lt
         ELSE IF byte = 62 THEN Gt
         ELSE IF byte = 38 THEN Amp
         ELSE FromCharCode(byte)
    ELSE Dot

\* hex-view.js:162
isPrintable(byte) == byte >= 32 /\ byte <= 126

\* one <span class="hex-byte"> of a row, hex-view.js:141-148
HexCell(offset, bytes, i) ==
  IF i < Len(bytes)
    THEN [hasIndex |-> TRUE,
          dataIndex |-> NumToString(offset + i, 10),
          text |-> PadStart(ToUpperCase(NumToString(bytes[i + 1], 16)), 2, "0")]
    ELSE [hasIndex |-> FALSE, dataIndex |-> <<>>, text |-> <<"&nbsp;", "&nbsp;">>]

\* mutant of AsciiCell: data-index is the column, without the row's offset
AsciiCell_ColumnIndex(offset, bytes, i) ==
  [dataIndex |-> NumToString(i, 10),
   char |-> byteToAscii(bytes[i + 1]),
   nonPrintable |-> ~isPrintable(bytes[i + 1])]

\* one <span class="hex-ascii-char"> of a row, hex-view.js:159-164
AsciiCell(offset, bytes, i) ==
  [dataIndex |-> NumToString(offset + i, 10),
   char |-> byteToAscii(bytes[i + 1]),
   nonPrintable |-> ~isPrintable(bytes[i + 1])]

\* renderRow, hex-view.js:135-174
renderRow(offset, bytes, o) ==
  [offsetHex |-> PadStart(ToUpperCase(NumToString(offset, 16)), 8, "0"),
   hexCells |-> [c \in 1..Max(o.bytesPerRow, 0) |-> HexCell(offset, bytes, c - 1)],
   gap |-> o.bytesPerRow > 7,
   hasAscii |-> o.showAscii,
   asciiCells |-> IF o.showAscii
                    THEN [c \in 1..Len(bytes) |-> AsciiCell(offset, bytes, c - 1)]
                    ELSE <<>>]

\* mutant of displayBytes: the cap of bytesPerRow * maxRows is not applied
displayBytes_Uncapped(totalBytes, o) == totalBytes

\* hex-view.js:92
displayBytes(totalBytes, o) == Min(totalBytes, o.bytesPerRow * o.maxRows)

\* mutant of truncated: a buffer that exactly fills the rows counts as truncated
truncated_Inclusive(totalBytes, shown) == totalBytes >= shown

\* hex-view.js:93
truncated(totalBytes, shown) == totalBytes > shown

\* mutant of renderRows: the loop stops before a final row shorter than bytesPerRow
RECURSIVE renderRows_DropsShortRow(_, _, _, _)
renderRows_DropsShortRow(bytes, offset, shown, o) ==
  IF offset < shown /\ offset + o.bytesPerRow <= shown
    THEN <<renderRow(offset, Slice(bytes, offset, Min(offset + o.bytesPerRow, shown)), o)>>
           \o renderRows_DropsShortRow(bytes, offset + o.bytesPerRow, shown, o)
    ELSE <<>>

\* the row loop, hex-view.js:110-113, from a given offset
RECURSIVE renderRows(_, _, _, _)
renderRows(bytes, offset, shown, o) ==
  IF offset < shown
    THEN <<renderRow(offset, Slice(bytes, offset, Min(offset + o.bytesPerRow, shown)), o)>>
           \o renderRows(bytes, offset + o.bytesPerRow, shown, o)
    ELSE <<>>

\* The loop of hex-view.js:110 is entered and its offset never reaches
\* displayBytes: html grows until the string length limit is exceeded.
LoopDiverges(totalBytes, o) ==
  0 < displayBytes(totalBytes, o) /\ o.bytesPerRow <= 0

\* formatSize, hex-view.js:197-205, for sizes below 1024 bytes
formatSize(bytes) == [value |-> bytes, unit |-> "Bytes"]

\* render on no data, hex-view.js:76-89
EmptyView ==
  [noData |-> TRUE,
   header |-> [shown |-> TRUE, size |-> [value |-> 0, unit |-> "No data"],
               truncated |-> FALSE],
   rows |-> <<>>,
   marker |-> [shown |-> FALSE, more |-> 0]]

\* render, hex-view.js:75-127: the new content of the container
render(d, o) ==
  IF d.null \/ Len(d.bytes) = 0 THEN EmptyView
  ELSE LET totalBytes == Len(d.bytes)
           shown == displayBytes(totalBytes, o)
           trunc == truncated(totalBytes, shown)
       IN [noData |-> FALSE,
           header |-> IF o.showHeader
                        THEN [shown |-> TRUE, size |-> formatSize(totalBytes),
                              truncated |-> trunc]
                        ELSE [shown |-> FALSE, size |-> formatSize(0),
                              truncated |-> FALSE],
           rows |-> renderRows(d.bytes, 0, shown, o),
           marker |-> IF trunc THEN [shown |-> TRUE, more |-> totalBytes - shown]
                               ELSE [shown |-> FALSE, more |-> 0]]

\* render throws (RangeError: Invalid string length) instead of returning
renderThrows(d, o) ==
  ~(d.null \/ Len(d.bytes) = 0) /\ LoopDiverges(Len(d.bytes), o)

\* the elements matched by .hex-byte[data-index] and .hex-ascii-char[data-index],
\* hex-view.js:211-212
hexBytes(v) ==
  UNION {{[kind |-> "hex", row |-> r, col |-> c] :
            c \in {x \in 1..Len(v.rows[r].hexCells) : v.rows[r].hexCells[x].hasIndex}} :
         r \in 1..Len(v.rows)}

asciiChars(v) ==
  UNION {{[kind |-> "ascii", row |-> r, col |-> c] : c \in 1..Len(v.rows[r].asciiCells)} :
         r \in 1..Len(v.rows)}

\* el.dataset.index
DataIndex(v, e) ==
  IF e.kind = "hex" THEN v.rows[e.row].hexCells[e.col].dataIndex
  ELSE v.rows[e.row].asciiCells[e.col].dataIndex

\* querySelector: the first match in document order, as a set of at most one element
First(S) ==
  {e \in S : \A f \in S : e.row < f.row \/ (e.row = f.row /\ e.col <= f.col)}

querySelector(v, kind, index) ==
  First({e \in (IF kind = "hex" THEN hexBytes(v) ELSE asciiChars(v)) :
           DataIndex(v, e) = NumToString(index, 10)})

\* mutant of highlight: the previous highlight is not removed
highlight_KeepsPrevious(v, index) ==
  highlighted \cup
    (IF index >= 0
       THEN querySelector(v, "hex", index) \cup querySelector(v, "ascii", index)
       ELSE {})

\* highlight, hex-view.js:214-231: the elements with class "highlight" afterwards
highlight(v, index) ==
  IF index >= 0
    THEN querySelector(v, "hex", index) \cup querySelector(v, "ascii", index)
    ELSE {}

(***************************************************************************)
(* Utils (src/unnamed/part_002)                                            *)
(***************************************************************************)
RECURSIVE Join(_)
Join(parts) == IF Len(parts) = 0 THEN <<>> ELSE Head(parts) \o Join(Tail(parts))

\* mutant of byteHex: the digits are not padded to two
byteHex_Unpadded(b) == NumToString(b, 16)

\* the callback of map in bytesToHex, part_002:511
byteHex(b) == PadStart(NumToString(b, 16), 2, "0")

\* Utils.bytesToHex, part_002:509-513
bytesToHex(bytes) == Join([i \in 1..Len(bytes) |-> byteHex(bytes[i])])

\* new Uint8Array(hex.length / 2), part_002:519: the length is truncated to an integer
hexToBytesLength(hex) == Len(hex) \div 2

\* hex.substr(i, 2), part_002:521
Substr(str, i, n) == SubSeq(str, i + 1, Min(i + n, Len(str)))

\* Utils.hexToBytes, part_002:518-524; a store past the end of the array is ignored
hexToBytes(hex) ==
  [k \in 1..hexToBytesLength(hex) |-> ToUint8(ParseInt(Substr(hex, 2 * (k - 1), 2), 16))]

(***************************************************************************)
(* Inputs                                                                  *)
(***************************************************************************)
\* a buffer of n bytes starting at value `first', all different
Buffer(n, first) == [i \in 1..n |-> (first + 37 * (i - 1)) % 256]

\* the 16 blocks 16k .. 16k+15 that together hold every byte value
Block(k) == [i \in 1..16 |-> 16 * k + i - 1]

TextInputs == UNION {[1..n -> {65, 233}] : n \in 0..MaxText}

BlockInputs == {[type |-> "Uint8Array", bytes |-> Block(k)] : k \in 0..15}

SetDataInputs ==
  {[type |-> "Uint8Array", bytes |-> Buffer(n, 60)] : n \in 0..MaxLen}
    \cup {[type |-> "ArrayBuffer", bytes |-> Buffer(n, 38)] : n \in {0, 2}}
    \cup {[type |-> "string", chars |-> t] : t \in TextInputs}
    \cup {[type |-> "other"]}

Prop(k, values) == {NoProps} \cup {k :> x : x \in values}

CtorInputs ==
  {a @@ b @@ c @@ d :
     a \in Prop("bytesPerRow", {0, -1, 3}),
     b \in Prop("maxRows", {0, -1, 1, 2}),
     c \in Prop("showAscii", {FALSE}),
     d \in Prop("showHeader", {FALSE})}

(***************************************************************************)
(* HexView: the state after construction and the operations                *)
(***************************************************************************)
UtilsIdle == hexArg = [kind |-> "none"] /\ hexResult = [kind |-> "none"]

\* no Hash or UUID call made
AsyncIdle ==
  /\ cryptoJS = TRUE
  /\ random = [i \in 1..16 |-> 0]
  /\ nextId = 1
  /\ pending = <<>>
  /\ done = {}

\* no FileUpload constructed
UploadIdle ==
  /\ uploadOptions = [maxSize |-> 0, onFile |-> FALSE, onError |-> FALSE]
  /\ file = [null |-> TRUE]
  /\ fileData = [null |-> TRUE]
  /\ reads = {}
  /\ errorShown = "none"
  /\ lastUpload = [op |-> "none"]

\* no page loaded
ThemeIdle ==
  /\ storage = "null"
  /\ dataTheme = "null"
  /\ systemDark = FALSE
  /\ bound = FALSE
  /\ userChose = FALSE
  /\ lastTheme = [op |-> "none", before |-> "null", prevOp |-> "none", prevBefore |-> "null"]

\* no CodeTabs constructed
TabsIdle ==
  /\ tabsOptions = [defaultTab |-> 0]
  /\ tabs = <<>>
  /\ activeIndex = 0
  /\ tabButtons = <<>>
  /\ panels = <<>>
  /\ lastTabs = [op |-> "none", index |-> 0, activeBefore |-> 0, buttonsBefore |-> <<>>,
                 panelsBefore |-> <<>>]

\* no debounced function made
DebounceIdle ==
  /\ wait = 0
  /\ now = 0
  /\ timeout = 0
  /\ timers = {}
  /\ log = <<>>

Event(op, kind, row, col) == [op |-> op, kind |-> kind, row |-> row, col |-> col]

\* the cells the pointer visits
HoverTargets(v) ==
  {e \in hexBytes(v) \cup asciiChars(v) : DigitsValue(DataIndex(v, e), 10) < MaxHover}

\* new HexView(container, o), hex-view.js:15-36 and init, 41-44
InitHexView ==
  /\ ctorOptions \in CtorInputs
  /\ options = Constructor(ctorOptions)
  /\ data = NullData
  /\ highlightedIndex = -1
  /\ view = EmptyView
  /\ highlighted = {}
  /\ thrown = "none"
  /\ lastEvent = Event("new", "none", 0, 0)

\* this.render() with this.data already assigned to d
Rerender(d) ==
  IF renderThrows(d, options)
    THEN /\ thrown' = "RangeError"
         /\ UNCHANGED <<view, highlighted>>
    ELSE /\ thrown' = "none"
         /\ view' = render(d, options)
         /\ highlighted' = {}

\* setData, hex-view.js:50-62
setData(arg) ==
  /\ data' = ConvertData(arg)
  /\ Rerender(ConvertData(arg))
  /\ lastEvent' = Event("setData", "none", 0, 0)
  /\ UNCHANGED <<ctorOptions, options, highlightedIndex, besidesHexView>>

\* clear, hex-view.js:67-70
clear ==
  /\ data' = NullData
  /\ Rerender(NullData)
  /\ lastEvent' = Event("clear", "none", 0, 0)
  /\ UNCHANGED <<ctorOptions, options, highlightedIndex, besidesHexView>>

\* the mouseenter listeners, hex-view.js:234-236 and 243-245
mouseenter(e) ==
  /\ e \in HoverTargets(view)
  /\ highlighted' = highlight(view, ParseInt(DataIndex(view, e), 10).value)
  /\ highlightedIndex' = ParseInt(DataIndex(view, e), 10).value
  /\ lastEvent' = Event("mouseenter", e.kind, e.row, e.col)
  /\ UNCHANGED <<ctorOptions, options, data, view, thrown, besidesHexView>>

\* the mouseleave listeners, hex-view.js:237-239 and 246-248
mouseleave(e) ==
  /\ e \in HoverTargets(view)
  /\ highlighted' = highlight(view, -1)
  /\ highlightedIndex' = -1
  /\ lastEvent' = Event("mouseleave", e.kind, 0, 0)
  /\ UNCHANGED <<ctorOptions, options, data, view, thrown, besidesHexView>>

Init == InitHexView /\ UtilsIdle /\ AsyncIdle /\ UploadIdle /\ ThemeIdle /\ TabsIdle /\ DebounceIdle

Next ==
  \/ \E arg \in SetDataInputs : setData(arg)
  \/ clear
  \/ \E e \in HoverTargets(view) : mouseenter(e)
  \/ \E e \in HoverTargets(view) : mouseleave(e)

Spec == Init /\ [][Next]_vars

(***************************************************************************)
(* Utils: calls of bytesToHex and hexToBytes                               *)
(***************************************************************************)
HexChars == {"0", "a", "F", "g", "-"}
HexInputs == UNION {[1..n -> HexChars] : n \in 0..MaxHexLen}
BufferInputs ==
  {<<b>> : b \in Bytes} \cup UNION {[1..n -> {0, 9, 171, 255}] : n \in 0..MaxBufLen}

NoOrigin == [some |-> FALSE, bytes |-> <<>>]

\* no HexView activity: one view, constructed without options
HexViewIdle ==
  /\ ctorOptions = NoProps
  /\ options = Constructor(NoProps)
  /\ data = NullData
  /\ highlightedIndex = -1
  /\ view = EmptyView
  /\ highlighted = {}
  /\ thrown = "none"
  /\ lastEvent = Event("new", "none", 0, 0)

InitUtils == hexArg = [kind |-> "none"] /\ hexResult = [kind |-> "none"]

\* a call Utils.bytesToHex(b)
CallBytesToHex(b) ==
  /\ hexArg' = [kind |-> "bytes", bytes |-> b]
  /\ hexResult' = [kind |-> "string", chars |-> bytesToHex(b), origin |-> b]
  /\ UNCHANGED besidesUtils

\* a call Utils.hexToBytes(h) on any string
CallHexToBytes(h) ==
  /\ hexArg' = [kind |-> "string", chars |-> h, origin |-> NoOrigin]
  /\ hexResult' = [kind |-> "bytes", bytes |-> hexToBytes(h)]
  /\ UNCHANGED besidesUtils

\* a call Utils.hexToBytes on the string the preceding bytesToHex call returned
CallHexToBytesOfResult ==
  /\ hexResult.kind = "string"
  /\ hexArg' = [kind |-> "string", chars |-> hexResult.chars,
                origin |-> [some |-> TRUE, bytes |-> hexResult.origin]]
  /\ hexResult' = [kind |-> "bytes", bytes |-> hexToBytes(hexResult.chars)]
  /\ UNCHANGED besidesUtils

InitU == HexViewIdle /\ InitUtils /\ AsyncIdle /\ UploadIdle /\ ThemeIdle /\ TabsIdle /\ DebounceIdle

NextU ==
  \/ \E b \in BufferInputs : CallBytesToHex(b)
  \/ \E h \in HexInputs : CallHexToBytes(h)
  \/ CallHexToBytesOfResult

SpecUtils == InitU /\ [][NextU]_vars

\* the ASCII column over every byte value
InitAscii ==
  /\ InitHexView
  /\ ~Has(ctorOptions, "maxRows")
  /\ ~Has(ctorOptions, "showHeader")
  /\ Has(ctorOptions, "bytesPerRow") => ctorOptions["bytesPerRow"] = 3
  /\ UtilsIdle /\ AsyncIdle /\ UploadIdle /\ ThemeIdle /\ TabsIdle /\ DebounceIdle

NextAscii ==
  \/ \E arg \in BlockInputs : setData(arg)
  \/ clear
  \/ \E e \in HoverTargets(view) : mouseenter(e)
  \/ \E e \in HoverTargets(view) : mouseleave(e)

SpecAscii == InitAscii /\ [][NextAscii]_vars

(***************************************************************************)
(* What a rendered view shows, read back from its cells                    *)
(***************************************************************************)
TotalLength == IF data.null THEN 0 ELSE Len(data.bytes)
PositiveConfig == options.bytesPerRow > 0 /\ options.maxRows > 0
Rendered == thrown = "none"

\* the cells of a row that show a byte
ByteCells(row) == SelectSeq(row.hexCells, LAMBDA cell : cell.hasIndex)
\* the bytes a row shows, read from the two hex digits of each cell
RowBytes(row) ==
  [c \in 1..Len(ByteCells(row)) |-> DigitsValue(ByteCells(row)[c].text, 16)]
RowOffset(row) == DigitsValue(row.offsetHex, 16)
ShownBytes == Join([r \in 1..Len(view.rows) |-> RowBytes(view.rows[r])])
ShownLength == Len(ShownBytes)

\* C1: with data of length >= 1 and positive bytesPerRow and maxRows, the view shows
\* exactly min(totalLength, bytesPerRow * maxRows) bytes, and it is marked truncated
\* (in the header, when shown, and by the marker) exactly when totalLength exceeds that.
C1_DisplayedLength ==
  (TotalLength >= 1 /\ PositiveConfig) =>
     /\ ShownLength = Min(TotalLength, options.bytesPerRow * options.maxRows)
     /\ view.marker.shown = (TotalLength > ShownLength)
     /\ view.header.shown => (view.header.truncated = (TotalLength > ShownLength))

C1_Witness ==
  /\ PositiveConfig
  /\ TotalLength = MaxLen
  /\ ShownLength = 6
  /\ view.marker.shown
  /\ view.header.shown /\ view.header.truncated

C4_EmptyStateIffNoData ==
  /\ TotalLength = 0 =>
       (view.noData /\ view.rows = <<>> /\ ~view.marker.shown /\ thrown = "none")
  /\ TotalLength >= 1 => ~view.noData

\* C8: when render lays out a buffer, a bytesPerRow or maxRows that was missing, 0 or
\* negative in the constructor's options has the default (16, 100) in this.options.
Malformed(o, k) == ~Has(o, k) \/ o[k] <= 0

C8_MalformedFallsBack ==
  (lastEvent.op = "setData" /\ TotalLength >= 1) =>
    /\ Malformed(ctorOptions, "bytesPerRow") => options.bytesPerRow = DefaultBytesPerRow
    /\ Malformed(ctorOptions, "maxRows") => options.maxRows = DefaultMaxRows

\* the byte an ASCII cell stands for: the one at its position in the buffer
AsciiByte(r, c) == data.bytes[(r - 1) * options.bytesPerRow + c]

\* C5: the ASCII cell of a byte in 32..126 shows that character, except that 60, 62
\* and 38 show as &lt; &gt; &amp;; the cell of any other byte shows '.'; a cell is
\* marked non-printable exactly when its byte is outside 32..126; no cell shows a raw
\* '<', '>' or '&'.
C5_AsciiColumn ==
  \A r \in 1..Len(view.rows) : \A c \in 1..Len(view.rows[r].asciiCells) :
    LET cell == view.rows[r].asciiCells[c]
        b == AsciiByte(r, c)
    IN /\ (b \in 32..126 /\ b \notin {60, 62, 38}) => cell.char = <<b>>
       /\ b = 60 => cell.char = Lt
       /\ b = 62 => cell.char = Gt
       /\ b = 38 => cell.char = Amp
       /\ b \notin 32..126 => cell.char = Dot
       /\ cell.nonPrintable = (b \notin 32..126)
       /\ cell.char \notin {<<60>>, <<62>>, <<38>>}

C5_Witness ==
  /\ \E r \in 1..Len(view.rows) : \E c \in 1..Len(view.rows[r].asciiCells) :
       AsciiByte(r, c) = 60 /\ view.rows[r].asciiCells[c].char = Lt
  /\ \E r \in 1..Len(view.rows) : \E c \in 1..Len(view.rows[r].asciiCells) :
       AsciiByte(r, c) = 62 /\ view.rows[r].asciiCells[c].char = Gt

Cells == hexBytes(view) \cup asciiChars(view)
IndexOf(e) == DigitsValue(DataIndex(view, e), 10)

\* C6: the highlighted cells all carry one byte index, at most one hex cell and one
\* ASCII cell are highlighted, and right after a mouseleave from a hex or an ASCII
\* cell no cell is highlighted and highlightedIndex = -1.
C6_SingleHighlight ==
  /\ \A e, f \in highlighted : DataIndex(view, e) = DataIndex(view, f)
  /\ Cardinality({e \in highlighted : e.kind = "hex"}) <= 1
  /\ Cardinality({e \in highlighted : e.kind = "ascii"}) <= 1
  /\ highlighted \subseteq Cells
  /\ lastEvent.op = "mouseleave" => (highlighted = {} /\ highlightedIndex = -1)

C6_Witness ==
  /\ lastEvent.op = "mouseleave"
  /\ lastEvent.kind = "ascii"
  /\ Len(view.rows) >= 2
  /\ highlighted = {}

\* C7: in a rendered view the data-index of the cell of row r, column c is the row's
\* offset + c; it is unique among the hex cells and among the ASCII cells, and the
\* same for the hex and the ASCII cell of a byte; every shown byte has a hex cell and
\* padding cells have no data-index. Entering the hex cell of index k highlights the
\* ASCII cell of index k when showAscii is on, and entering the ASCII cell of index k
\* highlights the hex cell of index k.
C7_PositionIdentity ==
  /\ \A e \in Cells : IndexOf(e) = RowOffset(view.rows[e.row]) + (e.col - 1)
  /\ \A e, f \in hexBytes(view) : IndexOf(e) = IndexOf(f) => e = f
  /\ \A e, f \in asciiChars(view) : IndexOf(e) = IndexOf(f) => e = f
  /\ {IndexOf(e) : e \in hexBytes(view)} = 0..(ShownLength - 1)
  /\ options.showAscii => {IndexOf(e) : e \in asciiChars(view)} = 0..(ShownLength - 1)
  /\ \A r \in 1..Len(view.rows) : \A c \in 1..Len(view.rows[r].hexCells) :
       /\ view.rows[r].hexCells[c].hasIndex =
            (RowOffset(view.rows[r]) + c - 1
               < Min(TotalLength, options.bytesPerRow * options.maxRows))
       /\ ~view.rows[r].hexCells[c].hasIndex => view.rows[r].hexCells[c].dataIndex = <<>>
  /\ lastEvent.op = "mouseenter" =>
       LET k == (lastEvent.row - 1) * options.bytesPerRow + lastEvent.col - 1
       IN /\ highlightedIndex = k
          /\ \E h \in highlighted : h.kind = "hex" /\ IndexOf(h) = k
          /\ options.showAscii => \E a \in highlighted : a.kind = "ascii" /\ IndexOf(a) = k

C7_Witness ==
  /\ Len(view.rows) >= 2
  /\ options.showAscii
  /\ \E r \in 1..Len(view.rows) : \E c \in 1..Len(view.rows[r].hexCells) :
       ~view.rows[r].hexCells[c].hasIndex
  /\ lastEvent = Event("mouseenter", "hex", 2, 1)
  /\ highlighted = {[kind |-> "hex", row |-> 2, col |-> 1],
                    [kind |-> "ascii", row |-> 2, col |-> 1]}

\* C9: bytesToHex(b) has 2 * length(b) characters, the two lowercase hex digits of
\* each byte in order (the empty string for the empty buffer), and hexToBytes of that
\* string is b again.
C9_HexRoundTrip ==
  /\ hexResult.kind = "string" =>
       /\ Len(hexResult.chars) = 2 * Len(hexResult.origin)
       /\ \A i \in 1..Len(hexResult.origin) :
            /\ hexResult.chars[2 * i - 1] = Digits[(hexResult.origin[i] \div 16) + 1]
            /\ hexResult.chars[2 * i] = Digits[(hexResult.origin[i] % 16) + 1]
  /\ (hexResult.kind = "bytes" /\ hexArg.origin.some) =>
       hexResult.bytes = hexArg.origin.bytes

C9_Witness ==
  /\ hexResult.kind = "bytes"
  /\ hexArg.origin.some
  /\ hexArg.origin.bytes = <<9, 171>>
  /\ hexArg.chars = <<"0", "9", "a", "b">>
  /\ hexResult.bytes = <<9, 171>>

IsHexDigit(c) == DigitValue(c, 16) >= 0
\* the string is not hexadecimal text: odd length, or a pair with a non-hex character
MalformedHex(h) ==
  \/ Len(h) % 2 = 1
  \/ \E i \in 1..Len(h) : ~IsHexDigit(h[i])

\* C10: a hexToBytes call on a string of odd length, or with a digit pair that is not
\* hexadecimal, ends with an error and returns no buffer.
C10_MalformedHexFails ==
  (hexArg.kind = "string" /\ MalformedHex(hexArg.chars)) => hexResult.kind = "error"

(***************************************************************************)
(* Hash and UUID (src/unnamed/part_002:549-578 and 643-746)                *)
(* A UUID text is a sequence of one-character strings, a name a sequence   *)
(* of code points, a buffer a sequence of bytes.                           *)
(***************************************************************************)
\* a & b and a | b on non-negative integers
RECURSIVE BitAnd(_, _)
BitAnd(a, b) ==
  IF a = 0 \/ b = 0 THEN 0
  ELSE (a % 2) * (b % 2) + 2 * BitAnd(a \div 2, b \div 2)

RECURSIVE BitOr(_, _)
BitOr(a, b) ==
  IF a = 0 THEN b
  ELSE IF b = 0 THEN a
  ELSE Max(a % 2, b % 2) + 2 * BitOr(a \div 2, b \div 2)

\* Utils.stringToBytes, part_002:495-497
stringToBytes(str) == TextEncode(str)

\* Array.prototype.join(sep) on strings
RECURSIVE JoinWith(_, _)
JoinWith(parts, sep) ==
  IF Len(parts) = 0 THEN <<>>
  ELSE IF Len(parts) = 1 THEN Head(parts)
  ELSE Head(parts) \o <<sep>> \o JoinWith(Tail(parts), sep)

\* The digest functions are the platform's (crypto.subtle.digest) and the
\* library's (CryptoJS.MD5). They are stood in for by one fixed function of
\* the algorithm and of the bytes hashed, position by position, with the
\* output length of the algorithm.
DigestLength == [a \in {"SHA-1", "SHA-256", "SHA-384", "SHA-512"} |->
                   CASE a = "SHA-1" -> 20
                     [] a = "SHA-256" -> 32
                     [] a = "SHA-384" -> 48
                     [] a = "SHA-512" -> 64]

RECURSIVE Weigh(_, _)
Weigh(bytes, k) ==
  IF Len(bytes) = 0 THEN 0
  ELSE ((k + 6) * (Head(bytes) + 1) + Weigh(Tail(bytes), k + 1)) % 256

StandIn(seed, length, bytes) ==
  LET w == Weigh(bytes, 1) + 13 * Len(bytes)
  IN [i \in 1..length |-> (seed + 37 * i + w * (2 * i + 1)) % 256]

\* crypto.subtle.digest(algorithm, buffer) as called on part_002:559: the
\* promise fulfils with the digest, or rejects with NotSupportedError when
\* the platform does not recognize the algorithm
SubtleDigest(algorithm, buffer) ==
  IF algorithm \in DOMAIN DigestLength
    THEN [ok |-> TRUE,
          bytes |-> StandIn(DigestLength[algorithm], DigestLength[algorithm], buffer)]
    ELSE [ok |-> FALSE, bytes |-> <<>>]

\* a 32-bit word of a CryptoJS WordArray, a signed integer, from its four bytes
Word(b) == (IF b[1] >= 128 THEN b[1] - 256 ELSE b[1]) * 16777216
             + b[2] * 65536 + b[3] * 256 + b[4]

\* the 16 bytes of the MD5 digest
Md5Digest(bytes) == StandIn(16, 16, bytes)

\* CryptoJS.MD5(CryptoJS.lib.WordArray.create(bytes)), part_002:673-674
CryptoJS_MD5(bytes) ==
  LET d == Md5Digest(bytes)
  IN [words |-> [w \in 1..4 |-> Word(SubSeq(d, 4 * w - 3, 4 * w))], sigBytes |-> 16]

\* mutant of wordArrayToBytes: the shift does not wrap at the word
wordArrayToBytes_NoWrap(wordArray) ==
  [k \in 1..wordArray.sigBytes |->
     (wordArray.words[((k - 1) \div 4) + 1] \div (2 ^ (24 - Min(k - 1, 3) * 8))) % 256]

\* UUID.wordArrayToBytes, part_002:729-739. (w >>> s) & 0xff is the floor of
\* w / 2^s modulo 256 for a signed w and s <= 24.
wordArrayToBytes(wordArray) ==
  [k \in 1..wordArray.sigBytes |->
     (wordArray.words[((k - 1) \div 4) + 1] \div (2 ^ (24 - ((k - 1) % 4) * 8))) % 256]

\* mutant of parse: the dashes are kept
parse_KeepsDashes(uuid) == hexToBytes(uuid)

\* UUID.parse, part_002:707-710
parse(uuid) == hexToBytes(SelectSeq(uuid, LAMBDA c : c # "-"))

\* mutant of format: the last group stops two digits early
format_ShortGroup(bytes) ==
  LET hex == bytesToHex(bytes)
  IN JoinWith(<<Slice(hex, 0, 8), Slice(hex, 8, 12), Slice(hex, 12, 16),
                Slice(hex, 16, 20), Slice(hex, 20, 30)>>, "-")

\* UUID.format, part_002:715-724
format(bytes) ==
  LET hex == bytesToHex(bytes)
  IN JoinWith(<<Slice(hex, 0, 8), Slice(hex, 8, 12), Slice(hex, 12, 16),
                Slice(hex, 16, 20), Slice(hex, 20, 32)>>, "-")

\* mutant of stamp: the old version and variant bits are not cleared
stamp_NoMask(bytes, version) ==
  [bytes EXCEPT ![7] = BitOr(@, version), ![9] = BitOr(@, 128)]

\* bytes[6] = (bytes[6] & 0x0f) | version; bytes[8] = (bytes[8] & 0x3f) | 0x80,
\* part_002:650-652, 676-678 and 697-699
stamp(bytes, version) ==
  [bytes EXCEPT ![7] = BitOr(BitAnd(@, 15), version),
                ![9] = BitOr(BitAnd(@, 63), 128)]

\* UUID.v4 on the bytes Utils.getRandomBytes(16) returned, part_002:647-655
v4(bytes) == format(stamp(bytes, 64))

\* mutant of combined: the name comes first
combined_NameFirst(nsBytes, nameBytes) == nameBytes \o nsBytes

\* the buffer hashed by v3 and v5, part_002:669-671 and 690-692
combined(nsBytes, nameBytes) == nsBytes \o nameBytes

\* UUID.v3 past the CryptoJS check, part_002:666-680
v3(namespace, name) ==
  format(stamp(wordArrayToBytes(CryptoJS_MD5(combined(parse(namespace),
                                                      stringToBytes(name)))), 48))

\* UUID.v5 up to the await: the buffer handed to Hash.sha1, part_002:687-694
v5Buffer(namespace, name) == combined(parse(namespace), stringToBytes(name))

\* UUID.v5 after the await, part_002:696-701
v5Finish(hashBytes) == format(stamp(Slice(hashBytes, 0, 16), 80))

\* UUID.NAMESPACE_DNS and UUID.NAMESPACE_URL, part_002:742-743
NAMESPACE_DNS ==
  <<
    "6", "b", "a", "7", "b", "8", "1", "0", "-", "9", "d", "a",
    "d", "-", "1", "1", "d", "1", "-", "8", "0", "b", "4", "-",
    "0", "0", "c", "0", "4", "f", "d", "4", "3", "0", "c", "8" >>

NAMESPACE_URL ==
  <<
    "6", "b", "a", "7", "b", "8", "1", "1", "-", "9", "d", "a",
    "d", "-", "1", "1", "d", "1", "-", "8", "0", "b", "4", "-",
    "0", "0", "c", "0", "4", "f", "d", "4", "3", "0", "c", "8" >>

(***************************************************************************)
(* Hash and UUID: the calls, and the digests in flight                     *)
(***************************************************************************)
MaxCalls == 2         \* number of Hash and UUID calls made in one behaviour
MaxRepeat == 3        \* the same, where calls are repeated with the same arguments

NoBytes == <<>>

\* one call with its arguments; the fields a function does not take are empty
Call(fn, namespace, name, algorithm, isString, input, rnd) ==
  [fn |-> fn, namespace |-> namespace, name |-> name, algorithm |-> algorithm,
   isString |-> isString, input |-> input, rnd |-> rnd]

\* a settled call, by call number: fulfilled with a UUID text ("uuid") or with a buffer
\* ("bytes"), or rejected ("error"); parsed and hashed tell how far it got,
\* cryptoJS whether CryptoJS was defined as it ran, inFlight the other calls
\* that were suspended as it settled
Settled(id, call, parsed, hashed, kind, text, bytes, error) ==
  [id |-> id, call |-> call, cryptoJS |-> cryptoJS, inFlight |-> DOMAIN pending \ {id}, parsed |-> parsed, hashed |-> hashed, kind |-> kind,
   text |-> text, bytes |-> bytes, error |-> error]

RandomFew == {[i \in 1..16 |-> 0], [i \in 1..16 |-> 255]}
RandomAll ==
  RandomFew \cup {[Buffer(16, 11) EXCEPT ![7] = b] : b \in Bytes}
            \cup {[Buffer(16, 200) EXCEPT ![9] = b] : b \in Bytes}

Truncated == SubSeq(NAMESPACE_DNS, 1, 35)
NamespaceInputs == {NAMESPACE_DNS, Truncated}
NameInputs == {<<>>, <<97>>}
AlgorithmInputs == {"SHA-1", "SHA-256", "SHA-384", "SHA-512", "MD5"}
CalculateInputs ==
  {[algorithm |-> a,
    data |-> IF a = "SHA-1" THEN [isString |-> FALSE, input |-> <<>>]
                            ELSE [isString |-> TRUE, input |-> <<97>>]] : a \in AlgorithmInputs}

\* the message of the error thrown on part_002:662
MissingPrimitive == "CryptoJS is required for UUID v3"

\* mutant of cryptoJSMissing: the check is gone
cryptoJSMissing_Unchecked(defined) == FALSE

\* typeof CryptoJS === 'undefined', part_002:661
cryptoJSMissing(defined) == ~defined

\* UUID.v4(), part_002:647-655, with Utils.getRandomBytes(16), 538-542
CallV4 ==
  /\ done' = done \cup
       {Settled(nextId, Call("v4", <<>>, <<>>, "", FALSE, NoBytes, random),
                FALSE, FALSE, "uuid", v4(random), NoBytes, "")}
  /\ random' \in RandomFew
  /\ nextId' = nextId + 1
  /\ UNCHANGED <<cryptoJS, pending, besidesAsync>>

\* UUID.v3(namespace, name), part_002:660-681: no await, so the call settles
\* within the call. With CryptoJS undefined and the check passed, line 673
\* throws a ReferenceError.
CallV3(namespace, name) ==
  /\ LET call == Call("v3", namespace, name, "", FALSE, NoBytes, NoBytes)
     IN done' = done \cup
          {IF cryptoJSMissing(cryptoJS)
             THEN Settled(nextId, call, FALSE, FALSE, "error", <<>>, NoBytes,
                          MissingPrimitive)
           ELSE IF ~cryptoJS
             THEN Settled(nextId, call, TRUE, FALSE, "error", <<>>, NoBytes,
                          "ReferenceError")
           ELSE Settled(nextId, call, TRUE, TRUE, "uuid", v3(namespace, name), NoBytes, "")}
  /\ nextId' = nextId + 1
  /\ UNCHANGED <<cryptoJS, random, pending, besidesAsync>>

\* the script that defines CryptoJS finishes loading
LoadCryptoJS ==
  /\ ~cryptoJS
  /\ cryptoJS' = TRUE
  /\ UNCHANGED <<random, nextId, pending, done, besidesAsync>>

\* a digest handed to the platform: crypto.subtle.digest copies the bytes
Job(call, algorithm, buffer) == [call |-> call, algorithm |-> algorithm, buffer |-> buffer]

\* Hash.calculate up to the await, part_002:554-559
calculateBuffer(isString, input) == IF isString THEN stringToBytes(input) ELSE input

\* Hash.calculate(algorithm, data)
CallCalculate(algorithm, d) ==
  /\ pending' = (nextId :> Job(Call("calculate", <<>>, <<>>, algorithm, d.isString,
                                    d.input, NoBytes),
                               algorithm, calculateBuffer(d.isString, d.input)))
                  @@ pending
  /\ nextId' = nextId + 1
  /\ UNCHANGED <<cryptoJS, random, done, besidesAsync>>

\* UUID.v5(namespace, name) up to the await: Hash.sha1(combined), part_002:566-568,
\* is Hash.calculate('SHA-1', combined)
CallV5(namespace, name) ==
  /\ pending' = (nextId :> Job(Call("v5", namespace, name, "", FALSE, NoBytes, NoBytes),
                               "SHA-1", calculateBuffer(FALSE, v5Buffer(namespace, name))))
                  @@ pending
  /\ nextId' = nextId + 1
  /\ UNCHANGED <<cryptoJS, random, done, besidesAsync>>

\* mutant of ResolveDigest: one buffer is shared by the calls in flight
ResolveDigest_SharedBuffer(id) ==
  LET last == CHOOSE j \in DOMAIN pending : \A k \in DOMAIN pending : k <= j
  IN SubtleDigest(pending[id].algorithm, pending[last].buffer)

\* mutant of ResolveDigest: one algorithm is shared by the calls in flight
ResolveDigest_SharedAlgorithm(id) ==
  LET last == CHOOSE j \in DOMAIN pending : \A k \in DOMAIN pending : k <= j
  IN SubtleDigest(pending[last].algorithm, pending[id].buffer)

\* the promise of crypto.subtle.digest(algorithm, buffer) of call id settles,
\* part_002:559: algorithm and buffer are locals of that call
ResolveDigest(id) == SubtleDigest(pending[id].algorithm, pending[id].buffer)

\* mutant of calculateSettle: a rejection is swallowed into an empty buffer
calculateSettle_Swallows(outcome) ==
  [kind |-> "bytes", bytes |-> outcome.bytes, error |-> ""]

\* Hash.calculate after the await, part_002:559-560: new Uint8Array(hashBuffer),
\* or the rejection of the digest, which nothing catches
calculateSettle(outcome) ==
  IF outcome.ok
    THEN [kind |-> "bytes", bytes |-> outcome.bytes, error |-> ""]
    ELSE [kind |-> "error", bytes |-> NoBytes, error |-> "NotSupportedError"]

\* the digest of call id settles and the call runs to its end
Settle(id) ==
  /\ id \in DOMAIN pending
  /\ LET job == pending[id]
         r == calculateSettle(ResolveDigest(id))
     IN done' = done \cup
          {IF job.call.fn = "v5" /\ r.kind = "bytes"
             THEN Settled(id, job.call, TRUE, TRUE, "uuid", v5Finish(r.bytes), NoBytes, "")
             ELSE Settled(id, job.call, job.call.fn = "v5", TRUE, r.kind, <<>>, r.bytes,
                          r.error)}
  /\ pending' = [j \in DOMAIN pending \ {id} |-> pending[j]]
  /\ UNCHANGED <<cryptoJS, random, nextId, besidesAsync>>

InitAsync ==
  /\ cryptoJS \in BOOLEAN
  /\ random = [i \in 1..16 |-> 0]
  /\ nextId = 1
  /\ pending = <<>>
  /\ done = {}
  /\ HexViewIdle /\ UtilsIdle /\ UploadIdle /\ ThemeIdle /\ TabsIdle /\ DebounceIdle

NextAsync ==
  \/ nextId <= MaxCalls /\ \E ns \in NamespaceInputs : CallV3(ns, <<97>>)
  \/ nextId <= MaxCalls /\ \E ns \in NamespaceInputs, name \in NameInputs : CallV5(ns, name)
  \/ nextId <= MaxCalls /\ \E c \in CalculateInputs : CallCalculate(c.algorithm, c.data)
  \/ \E id \in DOMAIN pending : Settle(id)
  \/ LoadCryptoJS

SpecAsync == InitAsync /\ [][NextAsync]_vars

\* v3 and v5 called again with the same arguments, other calls in between
InitRepeat ==
  /\ cryptoJS \in BOOLEAN
  /\ random \in RandomFew
  /\ nextId = 1
  /\ pending = <<>>
  /\ done = {}
  /\ HexViewIdle /\ UtilsIdle /\ UploadIdle /\ ThemeIdle /\ TabsIdle /\ DebounceIdle

NextRepeat ==
  \/ nextId <= MaxRepeat /\ CallV4
  \/ nextId <= MaxRepeat /\ \E ns \in {NAMESPACE_DNS, NAMESPACE_URL} : CallV3(ns, <<97>>)
  \/ nextId <= MaxRepeat /\ \E ns \in {NAMESPACE_DNS, NAMESPACE_URL} : CallV5(ns, <<97>>)
  \/ \E id \in DOMAIN pending : Settle(id)
  \/ LoadCryptoJS

SpecRepeat == InitRepeat /\ [][NextRepeat]_vars

\* UUID.v4 over the values of the two stamped bytes
InitV4 ==
  /\ cryptoJS = TRUE
  /\ random \in RandomAll
  /\ nextId = 1
  /\ pending = <<>>
  /\ done = {}
  /\ HexViewIdle /\ UtilsIdle /\ UploadIdle /\ ThemeIdle /\ TabsIdle /\ DebounceIdle

NextV4 == nextId <= MaxCalls /\ CallV4

SpecV4 == InitV4 /\ [][NextV4]_vars

(***************************************************************************)
(* UUID texts read back                                                    *)
(***************************************************************************)
LowerHex == {"0", "1", "2", "3", "4", "5", "6", "7", "8", "9",
             "a", "b", "c", "d", "e", "f"}

\* the hex digits of a UUID text, dashes left out
UuidDigits(text) == SelectSeq(text, LAMBDA c : c # "-")

\* the 16 bytes a canonical UUID text spells
UuidBytes(text) ==
  LET d == UuidDigits(text)
  IN [k \in 1..16 |-> 16 * DigitValue(d[2 * k - 1], 16) + DigitValue(d[2 * k], 16)]

\* the calls of one function that returned a UUID
Returned(fn) == {c \in done : c.call.fn = fn /\ c.kind = "uuid"}

\* b and c agree outside the version nibble of byte 6 and the two variant
\* bits of byte 8
SameOutsideStamp(b, c) ==
  /\ \A i \in (1..16) \ {7, 9} : b[i] = c[i]
  /\ b[7] % 16 = c[7] % 16
  /\ b[9] % 64 = c[9] % 64

\* C11: in every UUID that v4 returns the 13th hex digit is 4 and the 17th is
\* one of 8, 9, a, b, and the other 122 bits are the random bits drawn.
C11_V4VersionVariant ==
  \A c \in Returned("v4") :
    /\ Len(UuidDigits(c.text)) = 32
    /\ UuidDigits(c.text)[13] = "4"
    /\ UuidDigits(c.text)[17] \in {"8", "9", "a", "b"}
    /\ SameOutsideStamp(UuidBytes(c.text), c.call.rnd)

\* a v4 call on random bytes whose version nibble and variant bits were all set
C11_Witness ==
  \E c \in Returned("v4") :
    /\ c.call.rnd[7] = 255
    /\ c.call.rnd[9] = 255
    /\ UuidDigits(c.text)[13] = "4"

\* a namespace text of 32 hex digits in groups of 8-4-4-4-12
Canonical(text) ==
  /\ Len(text) = 36
  /\ \A i \in 1..36 :
       IF i \in {9, 14, 19, 24} THEN text[i] = "-" ELSE text[i] \in LowerHex

\* the namespace bytes of a call
NamespaceBytes(ns) == IF Canonical(ns) THEN UuidBytes(ns) ELSE parse(ns)

\* the bytes spelled by text are the first 16 of digest, but for the version
\* nibble and the variant bits
StampedDigest(text, digest, version) ==
  /\ Len(UuidDigits(text)) = 32
  /\ SameOutsideStamp(UuidBytes(text), SubSeq(digest, 1, 16))
  /\ UuidBytes(text)[7] \div 16 = version
  /\ UuidBytes(text)[9] \div 64 = 2

C13_CanonicalText ==
  \A c \in Returned("v3") \cup Returned("v4") \cup Returned("v5") : Canonical(c.text)

\* a v4 call on zero bytes, whose digits need their padding, and a v5 call
C13_Witness ==
  /\ \E c \in Returned("v4") : c.call.rnd = [i \in 1..16 |-> 0] /\ Len(c.text) = 36
  /\ \E c \in Returned("v5") : c.text[9] = "-"

\* C14: v3 and v5 are deterministic: two calls with the same namespace and
\* name that return, return the same UUID, whatever calls were made or were
\* in flight in between.
C14_Deterministic ==
  \A a \in done, b \in done :
    (a.call.fn \in {"v3", "v5"} /\ a.call = b.call /\ a.kind = "uuid" /\ b.kind = "uuid")
      => a.text = b.text

\* the first and the third call were the same v5 call, the second another
\* one that settled between them
C14_Witness ==
  \E a \in Returned("v5"), b \in Returned("v5"), c \in Returned("v5") :
    /\ a.id = 1 /\ c.id = 2 /\ b.id = 3
    /\ a.call = b.call /\ c.call # a.call
    /\ a.text = b.text /\ c.text # a.text

\* a namespace text that is 32 hex digits once its dashes are removed
HexNamespace(ns) ==
  /\ Len(UuidDigits(ns)) = 32
  /\ \A i \in 1..32 : DigitValue(UuidDigits(ns)[i], 16) >= 0

\* C15: the namespace bytes hashed by v3 and v5 are exactly 16: parse returns a
\* 16-byte buffer when the text without its dashes is 32 hex digits, and
\* fails otherwise, and v3 and v5 then fail too and produce no UUID.
C15_NamespaceSixteenBytes ==
  \A c \in done :
    (c.call.fn \in {"v3", "v5"} /\ c.parsed) =>
      IF HexNamespace(c.call.namespace)
        THEN Len(parse(c.call.namespace)) = 16
        ELSE c.kind = "error"

\* C16: with CryptoJS undefined, v3 fails with the missing-primitive error for
\* every namespace and name, before it parses the namespace or hashes
\* anything, and returns no UUID; with CryptoJS defined it does not raise
\* that error.
C16_V3NeedsCryptoJS ==
  \A c \in done :
    c.call.fn = "v3" =>
      IF c.cryptoJS
        THEN c.error # MissingPrimitive
        ELSE /\ c.kind = "error" /\ c.error = MissingPrimitive
             /\ ~c.parsed /\ ~c.hashed

\* a v3 call made before CryptoJS was loaded and the same call made after
C16_Witness ==
  \E a \in done, b \in done :
    /\ a.call.fn = "v3" /\ a.call = b.call
    /\ ~a.cryptoJS /\ a.error = MissingPrimitive
    /\ b.cryptoJS /\ b.kind = "uuid"

\* the settled calls of Hash.calculate
Calculated == {c \in done : c.call.fn = "calculate"}

\* C17: Hash.calculate resolves with exactly 20, 32, 48 and 64 bytes for SHA-1,
\* SHA-256, SHA-384 and SHA-512, and for any unrecognized algorithm fails with
\* the unsupported-algorithm error and never returns a buffer.
C17_DigestLengths ==
  \A c \in Calculated :
    CASE c.call.algorithm = "SHA-1" -> c.kind = "bytes" /\ Len(c.bytes) = 20
      [] c.call.algorithm = "SHA-256" -> c.kind = "bytes" /\ Len(c.bytes) = 32
      [] c.call.algorithm = "SHA-384" -> c.kind = "bytes" /\ Len(c.bytes) = 48
      [] c.call.algorithm = "SHA-512" -> c.kind = "bytes" /\ Len(c.bytes) = 64
      [] OTHER -> c.kind = "error" /\ c.error = "NotSupportedError" /\ c.bytes = <<>>

\* a SHA-512 call that resolved and an MD5 call that was rejected
C17_Witness ==
  /\ \E c \in Calculated : c.call.algorithm = "SHA-512" /\ c.kind = "bytes"
  /\ \E c \in Calculated : c.call.algorithm = "MD5" /\ c.kind = "error"

\* C18: with any number of Hash.calculate and v5 calls in flight at once and
\* any order of completion, each call resolves with the digest of its own
\* input under its own algorithm.
C18_OwnDigest ==
  /\ \A c \in Calculated :
       c.kind = "bytes" =>
         c.bytes = SubtleDigest(c.call.algorithm,
                                IF c.call.isString THEN TextEncode(c.call.input)
                                                   ELSE c.call.input).bytes
  /\ \A c \in Returned("v5") :
       SameOutsideStamp(UuidBytes(c.text),
                        SubSeq(SubtleDigest("SHA-1", NamespaceBytes(c.call.namespace)
                                                       \o TextEncode(c.call.name)).bytes,
                               1, 16))

\* two digests of the same input under different algorithms were in flight
\* together and the second call settled first
C18_Witness ==
  \E a \in Calculated, b \in Calculated :
    /\ a.id = 1 /\ b.id = 2 /\ 1 \in b.inFlight
    /\ a.call.input = b.call.input /\ a.call.algorithm # b.call.algorithm
    /\ a.kind = "bytes" /\ b.kind = "bytes" /\ a.bytes # b.bytes

(***************************************************************************)
(* FileUpload (src/unnamed/part_002:15-326)                                *)
(* A File is [id, size]; the content of file id is written id, so a read   *)
(* result is [null |-> FALSE, of |-> id]. A callback option is present or  *)
(* not.                                                                    *)
(***************************************************************************)
MaxFiles == 2         \* number of distinct File objects handed to handleFile
MaxReads == 2         \* number of FileReader reads in flight together

DefaultMaxSize == 50 * 1024 * 1024

NullFile == [null |-> TRUE, id |-> 0, size |-> 0]
NullFileData == [null |-> TRUE, of |-> 0]
File(id, size) == [null |-> FALSE, id |-> id, size |-> size]
NoCallback == [called |-> FALSE, file |-> 0, of |-> 0]

\* FileUpload constructor, part_002:24-33: the defaults, then ...options over
\* them; the other options do not bear on the operations modelled
UploadConstructor(o) ==
  LET defaults ==
        [maxSize |-> IF Has(o, "maxSize") /\ o["maxSize"] # 0
                       THEN o["maxSize"] ELSE DefaultMaxSize,
         onFile |-> Has(o, "onFile"),
         onError |-> Has(o, "onError")]
  IN [k \in DOMAIN defaults |->
        IF k = "maxSize" /\ Has(o, k) THEN o[k] ELSE defaults[k]]

UploadCtorInputs ==
  {a @@ b @@ c :
     a \in Prop("maxSize", {0, 10}),
     b \in Prop("onFile", {"function"}),
     c \in Prop("onError", {"function"})}

\* the files offered to an upload whose limit is m
FileInputs(m) == {File(i, sz) : i \in 1..MaxFiles, sz \in {m, m + 1}}

\* history of the last operation: its argument, this.file and this.fileData
\* before it, whether it started a read, the callbacks it invoked and the
\* message it showed; sinceClear tells that clear() was called and handleFile
\* has not been called since
UploadEvent(op, arg, started, onFile, onError, message) ==
  [op |-> op, arg |-> arg, fileBefore |-> file, dataBefore |-> fileData,
   started |-> started, onFile |-> onFile, onError |-> onError, message |-> message,
   sinceClear |-> IF op = "clear" THEN TRUE
                  ELSE IF op = "handleFile" THEN FALSE
                  ELSE lastUpload.sinceClear]

\* new FileUpload(container, o), part_002:15-36
InitUpload ==
  /\ \E o \in UploadCtorInputs : uploadOptions = UploadConstructor(o)
  /\ file = NullFile
  /\ fileData = NullFileData
  /\ reads = {}
  /\ errorShown = "none"
  /\ lastUpload = [op |-> "new", arg |-> NullFile, fileBefore |-> NullFile,
                   dataBefore |-> NullFileData, started |-> FALSE,
                   onFile |-> NoCallback, onError |-> FALSE, message |-> "none",
                   sinceClear |-> FALSE]

\* mutant of tooLarge: a file of exactly the limit is refused as well
tooLarge_Inclusive(f, maxSize) == f.size >= maxSize

\* file.size > this.options.maxSize, part_002:139
tooLarge(f, maxSize) == f.size > maxSize

\* the read number a new FileReader gets in the model
FreeRead == CHOOSE n \in 1..MaxReads : \A r \in reads : r.n # n

\* handleFile(f) up to its await, part_002:137-157: the size check with
\* showError and onError, or this.file = f and readFile(f) started
handleFile(f) ==
  IF tooLarge(f, uploadOptions.maxSize)
    THEN /\ errorShown' = "size exceeded"
         /\ lastUpload' = UploadEvent("handleFile", f, FALSE, NoCallback,
                                      uploadOptions.onError, "size exceeded")
         /\ UNCHANGED <<uploadOptions, file, fileData, reads, besidesUpload>>
    ELSE /\ Cardinality(reads) < MaxReads
         /\ file' = f
         /\ reads' = reads \cup {[n |-> FreeRead, file |-> f]}
         /\ lastUpload' = UploadEvent("handleFile", f, TRUE, NoCallback, FALSE, "none")
         /\ UNCHANGED <<uploadOptions, fileData, errorShown, besidesUpload>>

\* reader.onload of read r and the rest of its handleFile, part_002:157-161
ReadLoaded(r) ==
  /\ r \in reads
  /\ reads' = reads \ {r}
  /\ fileData' = [null |-> FALSE, of |-> r.file.id]
  /\ lastUpload' = UploadEvent("loaded", r.file, FALSE,
                               IF uploadOptions.onFile
                                 THEN [called |-> TRUE, file |-> r.file.id,
                                       of |-> r.file.id]
                                 ELSE NoCallback,
                               FALSE, "none")
  /\ UNCHANGED <<uploadOptions, file, errorShown, besidesUpload>>

\* reader.onerror of read r and the catch of its handleFile, part_002:162-167
ReadFailed(r) ==
  /\ r \in reads
  /\ reads' = reads \ {r}
  /\ errorShown' = "Failed to read file"
  /\ lastUpload' = UploadEvent("failed", r.file, FALSE, NoCallback,
                               uploadOptions.onError, "Failed to read file")
  /\ UNCHANGED <<uploadOptions, file, fileData, besidesUpload>>

\* clear(), part_002:238-244
uploadClear ==
  /\ file' = NullFile
  /\ fileData' = NullFileData
  /\ lastUpload' = UploadEvent("clear", NullFile, FALSE, NoCallback, FALSE, "none")
  /\ UNCHANGED <<uploadOptions, reads, errorShown, besidesUpload>>

\* the timer of showError removes the error element, part_002:262-264
ErrorTimeout ==
  /\ errorShown # "none"
  /\ errorShown' = "none"
  /\ UNCHANGED <<uploadOptions, file, fileData, reads, lastUpload, besidesUpload>>

InitUploadOnly == InitUpload /\ HexViewIdle /\ UtilsIdle /\ AsyncIdle /\ ThemeIdle /\ TabsIdle /\ DebounceIdle

NextUpload ==
  \/ \E f \in FileInputs(uploadOptions.maxSize) : handleFile(f)
  \/ \E r \in reads : ReadLoaded(r)
  \/ \E r \in reads : ReadFailed(r)
  \/ uploadClear
  \/ ErrorTimeout

SpecUpload == InitUploadOnly /\ [][NextUpload]_vars

\* C19: handleFile on a file larger than maxSize (50 MiB by default) rejects
\* it before any read: it shows the size-exceeded message and calls onError
\* (when one is configured), starts no read, does not call onFile and leaves
\* file and fileData as they were; a file of exactly maxSize is accepted.
C19_OversizeRejected ==
  lastUpload.op = "handleFile" =>
    /\ lastUpload.arg.size > uploadOptions.maxSize =>
         /\ lastUpload.message = "size exceeded"
         /\ uploadOptions.onError => lastUpload.onError
         /\ ~lastUpload.started
         /\ ~lastUpload.onFile.called
         /\ file = lastUpload.fileBefore
         /\ fileData = lastUpload.dataBefore
    /\ lastUpload.arg.size = uploadOptions.maxSize =>
         /\ lastUpload.started
         /\ file = lastUpload.arg
         /\ lastUpload.message = "none"

\* a file one byte over the default limit was refused while another file and
\* its data were held, and onError was called
C19_Witness ==
  /\ lastUpload.op = "handleFile"
  /\ uploadOptions.maxSize = DefaultMaxSize
  /\ lastUpload.arg.size = DefaultMaxSize + 1
  /\ lastUpload.onError
  /\ ~file.null /\ ~fileData.null /\ file.id # lastUpload.arg.id

(***************************************************************************)
(* ThemeManager (src/unnamed/part_002:345-393)                             *)
(* localStorage outlives the page; a reload resets the document and the    *)
(* listeners. "null" stands for an absent key or attribute.                *)
(***************************************************************************)
LIGHT == "light"
DARK == "dark"

\* prefersDark ? this.DARK : this.LIGHT, part_002:353 and 389
preferred(matches) == IF matches THEN DARK ELSE LIGHT

\* savedTheme || (prefersDark ? this.DARK : this.LIGHT), part_002:353
initialTheme(savedTheme, prefersDark) ==
  IF savedTheme # "null" THEN savedTheme ELSE preferred(prefersDark)

\* history of the last two operations and the data-theme attribute before each
ThemeEvent(op) ==
  [op |-> op, before |-> dataTheme, prevOp |-> lastTheme.op, prevBefore |-> lastTheme.before]

\* setTheme(theme), part_002:358-362
setTheme(theme) ==
  /\ dataTheme' = theme
  /\ storage' = theme

\* the page loads: nothing of the previous document is left
InitTheme ==
  /\ storage = "null"
  /\ dataTheme = "null"
  /\ systemDark \in BOOLEAN
  /\ bound = FALSE
  /\ userChose = FALSE
  /\ lastTheme = [op |-> "load", before |-> "null", prevOp |-> "none", prevBefore |-> "null"]

\* ThemeManager.init(), part_002:350-357, called once per page on 753
themeInit ==
  /\ ~bound
  /\ setTheme(initialTheme(storage, systemDark))
  /\ bound' = TRUE
  /\ lastTheme' = ThemeEvent("init")
  /\ UNCHANGED <<systemDark, userChose, besidesTheme>>

\* mutant of nextTheme: a toggle always lands on light
nextTheme_Stuck(current) == LIGHT

\* current === this.DARK ? this.LIGHT : this.DARK, part_002:366
nextTheme(current) == IF current = DARK THEN LIGHT ELSE DARK

\* a click on the toggle button: toggle(), part_002:364-368 and 382-384
toggle ==
  /\ bound
  /\ setTheme(nextTheme(dataTheme))
  /\ userChose' = TRUE
  /\ lastTheme' = ThemeEvent("toggle")
  /\ UNCHANGED <<systemDark, bound, besidesTheme>>

\* a call ThemeManager.setTheme(theme) from a page script, part_002:783
callSetTheme(theme) ==
  /\ bound
  /\ setTheme(theme)
  /\ userChose' = TRUE
  /\ lastTheme' = ThemeEvent("setTheme")
  /\ UNCHANGED <<systemDark, bound, besidesTheme>>

\* !localStorage.getItem(this.STORAGE_KEY), part_002:388
followsSystem(saved) == saved = "null"

\* the system preference changes; the change listener of bindEvents,
\* part_002:387-391, runs if the page has attached it
systemChange ==
  /\ systemDark' = ~systemDark
  /\ IF bound /\ followsSystem(storage)
       THEN setTheme(preferred(~systemDark))
       ELSE UNCHANGED <<dataTheme, storage>>
  /\ lastTheme' = ThemeEvent("change")
  /\ UNCHANGED <<bound, userChose, besidesTheme>>

\* the page is reloaded or revisited: a new document, the same localStorage
reload ==
  /\ bound
  /\ dataTheme' = "null"
  /\ bound' = FALSE
  /\ lastTheme' = ThemeEvent("load")
  /\ UNCHANGED <<storage, systemDark, userChose, besidesTheme>>

InitThemeOnly == InitTheme /\ HexViewIdle /\ UtilsIdle /\ AsyncIdle /\ UploadIdle /\ TabsIdle /\ DebounceIdle

NextTheme ==
  \/ themeInit
  \/ toggle
  \/ \E t \in {LIGHT, DARK} : callSetTheme(t)
  \/ systemChange
  \/ reload

SpecTheme == InitThemeOnly /\ [][NextTheme]_vars

\* C20: the theme follows the system preference: as long as the user has never
\* chosen a theme, the theme after init is the system preference, and every
\* later change of the system preference switches the theme to it.
C20_FollowsSystem ==
  (bound /\ ~userChose) => dataTheme = preferred(systemDark)

\* C21: whenever getFile() and getData() are both non-null, getData() is the
\* content of the file getFile() returns, and every onFile(file, data)
\* callback receives the data of that same file.
C21_DataOfFile ==
  /\ (~file.null /\ ~fileData.null) => fileData.of = file.id
  /\ lastUpload.onFile.called => lastUpload.onFile.of = lastUpload.onFile.file

\* C22: after clear(), getFile() and getData() are both null and onFile is not
\* invoked until handleFile is called again, even when a read started before
\* the clear completes after it.
C22_ClearedStaysEmpty ==
  lastUpload.sinceClear =>
    /\ file.null
    /\ fileData.null
    /\ ~lastUpload.onFile.called

\* C23: highlightedIndex is -1 or the index of a byte that is displayed and
\* marked highlighted in the current rendering; in particular it is -1 after
\* setData or clear has rendered the view again.
C23_HighlightedIndexCurrent ==
  /\ \/ highlightedIndex = -1
     \/ \E e \in highlighted : e \in Cells /\ IndexOf(e) = highlightedIndex
  /\ lastEvent.op \in {"setData", "clear"} => highlightedIndex = -1

(***************************************************************************)
(* CodeTabs (src/unnamed/part_001:9-217)                                   *)
(* A text is [text, n]: a plain string has n = -1, a template such as      *)
(* lang-${index} has the string before the number and the number.          *)
(***************************************************************************)
MaxTabs == 3          \* longest array handed to setExamples

Str(x) == [text |-> x, n |-> -1]

\* CodeTabs constructor, part_001:24-30: the default, then ...options over it
TabsConstructor(o) ==
  LET defaults ==
        [defaultTab |-> IF Has(o, "defaultTab") /\ o["defaultTab"] # 0
                          THEN o["defaultTab"] ELSE 0]
  IN [k \in DOMAIN defaults |-> IF Has(o, k) THEN o[k] ELSE defaults[k]]

\* the callback of examples.map in setExamples, part_001:47-51; index from 0
tabOf(ex, index) ==
  [lang |-> IF ex.lang # "" THEN Str(ex.lang) ELSE [text |-> "lang-", n |-> index],
   label |-> IF ex.label # "" THEN Str(ex.label)
             ELSE IF ex.lang # "" THEN Str(ex.lang)
             ELSE [text |-> "Tab ", n |-> index + 1],
   code |-> Str(ex.code)]

\* Math.min(this.options.defaultTab, this.tabs.length - 1), part_001:53
startIndex(defaultTab, length) == Min(defaultTab, length - 1)

\* render, part_001:60-101: the active flags of the .code-tab and .code-panel
\* elements; without tabs one placeholder tab and panel, both active
renderTabs(t, active) ==
  IF Len(t) = 0 THEN <<TRUE>> ELSE [i \in 1..Len(t) |-> (i - 1) = active]

\* index < 0 || index >= this.tabs.length, part_001:128
outOfRange(index, length) == index < 0 \/ index >= length

\* classList.toggle('active', i === index) over the elements, part_001:133-140
toggleActive(elements, index) == [i \in 1..Len(elements) |-> (i - 1) = index]

ExampleKinds == {[lang |-> "js", label |-> "", code |-> "x"],
                 [lang |-> "", label |-> "", code |-> ""]}
ExampleInputs == UNION {[1..n -> ExampleKinds] : n \in 0..MaxTabs}
TabsCtorInputs == Prop("defaultTab", {0, 1, -1, 5})
IndexInputs == -1..MaxTabs

\* history of the last operation: its index argument and the state before it
TabsEvent(op, index) ==
  [op |-> op, index |-> index, activeBefore |-> activeIndex,
   buttonsBefore |-> tabButtons, panelsBefore |-> panels]

\* new CodeTabs(container, o), part_001:15-33; nothing is rendered yet
InitTabs ==
  /\ \E o \in TabsCtorInputs : tabsOptions = TabsConstructor(o)
  /\ tabs = <<>>
  /\ activeIndex = 0
  /\ tabButtons = <<>>
  /\ panels = <<>>
  /\ lastTabs = [op |-> "new", index |-> 0, activeBefore |-> 0, buttonsBefore |-> <<>>,
                 panelsBefore |-> <<>>]

\* setExamples(examples), part_001:46-55, with render
setExamples(examples) ==
  LET t == [i \in 1..Len(examples) |-> tabOf(examples[i], i - 1)]
      a == startIndex(tabsOptions.defaultTab, Len(t))
  IN /\ tabs' = t
     /\ activeIndex' = a
     /\ tabButtons' = renderTabs(t, a)
     /\ panels' = renderTabs(t, a)
     /\ lastTabs' = TabsEvent("setExamples", 0)
     /\ UNCHANGED <<tabsOptions, besidesTabs>>

\* setActiveTab(index), part_001:127-141
setActiveTab(index) ==
  /\ IF outOfRange(index, Len(tabs))
       THEN UNCHANGED <<activeIndex, tabButtons, panels>>
       ELSE /\ activeIndex' = index
            /\ tabButtons' = toggleActive(tabButtons, index)
            /\ panels' = toggleActive(panels, index)
  /\ lastTabs' = TabsEvent("setActiveTab", index)
  /\ UNCHANGED <<tabsOptions, tabs, besidesTabs>>

\* a click on the tab button of data-index i, part_001:107-112
tabClick(i) ==
  /\ Len(tabs) > 0
  /\ i \in 0..(Len(tabButtons) - 1)
  /\ setActiveTab(i)

InitTabsOnly ==
  InitTabs /\ HexViewIdle /\ UtilsIdle /\ AsyncIdle /\ UploadIdle /\ ThemeIdle /\ DebounceIdle

NextTabs ==
  \/ \E examples \in ExampleInputs : setExamples(examples)
  \/ \E index \in IndexInputs : setActiveTab(index)
  \/ \E i \in 0..(MaxTabs - 1) : tabClick(i)

SpecTabs == InitTabsOnly /\ [][NextTabs]_vars

\* the positions of the elements that carry class "active", counted from 0
ActiveAt(elements) == {i - 1 : i \in {j \in 1..Len(elements) : elements[j]}}

\* C24: whenever tabs is non-empty, 0 <= activeIndex < tabs.length and exactly
\* one tab and one panel are active, those at activeIndex; setActiveTab with
\* an index outside [0, tabs.length) leaves activeIndex and the active tab
\* unchanged.
C24_OneActiveTab ==
  /\ Len(tabs) > 0 =>
       /\ 0 <= activeIndex /\ activeIndex < Len(tabs)
       /\ ActiveAt(tabButtons) = {activeIndex}
       /\ ActiveAt(panels) = {activeIndex}
  /\ (lastTabs.op = "setActiveTab"
        /\ (lastTabs.index < 0 \/ lastTabs.index >= Len(tabs))) =>
       /\ activeIndex = lastTabs.activeBefore
       /\ tabButtons = lastTabs.buttonsBefore
       /\ panels = lastTabs.panelsBefore

\* C25: after init and any sequence of toggle, setTheme('light' | 'dark') and
\* system preference changes, data-theme is 'light' or 'dark' and equals the
\* value stored under the storage key; a toggle switches to the other theme,
\* so two consecutive toggles restore the theme.
C25_ThemeConsistent ==
  /\ bound => (dataTheme \in {LIGHT, DARK} /\ dataTheme = storage)
  /\ lastTheme.op = "toggle" => dataTheme # lastTheme.before
  /\ (lastTheme.op = "toggle" /\ lastTheme.prevOp = "toggle") =>
       dataTheme = lastTheme.prevBefore

\* two toggles in a row from dark, under a light system preference that had
\* changed after init
C25_Witness ==
  /\ bound /\ ~systemDark
  /\ lastTheme.op = "toggle" /\ lastTheme.prevOp = "toggle"
  /\ lastTheme.prevBefore = DARK /\ lastTheme.before = LIGHT
  /\ dataTheme = DARK /\ storage = DARK

(***************************************************************************)
(* Utils.debounce (src/unnamed/part_002:480-490)                           *)
(* Time is counted in steps of the clock. A timer runs when it is due: the *)
(* clock does not pass the due time of a timer, and a timer that is due    *)
(* runs before a call made at the same time.                               *)
(***************************************************************************)
MaxTime == 4          \* last value of the clock
MaxBurst == 3         \* number of calls of the debounced function

WaitInputs == {0, 1, 2}
ArgInputs == {1, 2}

\* mutant of clearTimeout: the timer is left running
clearTimeout_Noop(set, id) == set

\* clearTimeout(timeout), part_002:484 and 487
clearTimeout(set, id) == {t \in set : t.id # id}

\* setTimeout(later, wait) for the call with arguments args, part_002:488;
\* the timer ids count up from 1
setTimeout(id, delay, args) == [id |-> id, due |-> now + delay, args |-> args]

\* some timer is due
Due == \E t \in timers : t.due <= now

\* const debounced = Utils.debounce(func, wait), part_002:480-481
InitDebounce ==
  /\ wait \in WaitInputs
  /\ now = 0
  /\ timeout = 0
  /\ timers = {}
  /\ log = <<>>

\* debounced(args), part_002:482-489
executedFunction(args) ==
  /\ timeout < MaxBurst
  /\ now + wait <= MaxTime
  /\ ~Due
  /\ timers' = clearTimeout(timers, timeout) \cup {setTimeout(timeout + 1, wait, args)}
  /\ timeout' = timeout + 1
  /\ log' = Append(log, [kind |-> "call", t |-> now, args |-> args])
  /\ UNCHANGED <<wait, now, besidesDebounce>>

\* the timer t runs later, part_002:483-486
later(t) ==
  /\ t \in timers
  /\ t.due <= now
  /\ timers' = clearTimeout(timers \ {t}, timeout)
  /\ log' = Append(log, [kind |-> "invoke", t |-> now, args |-> t.args])
  /\ UNCHANGED <<wait, now, timeout, besidesDebounce>>

\* the clock advances
tick ==
  /\ now < MaxTime
  /\ ~Due
  /\ now' = now + 1
  /\ UNCHANGED <<wait, timeout, timers, log, besidesDebounce>>

InitDebounceOnly ==
  InitDebounce /\ HexViewIdle /\ UtilsIdle /\ AsyncIdle /\ UploadIdle /\ ThemeIdle /\ TabsIdle

NextDebounce ==
  \/ \E a \in ArgInputs : executedFunction(a)
  \/ \E t \in timers : later(t)
  \/ tick

SpecDebounce == InitDebounceOnly /\ [][NextDebounce]_vars

\* timers that are due do run and the clock does advance
FairDebounce ==
  SpecDebounce /\ WF_vars(\E t \in timers : later(t)) /\ WF_vars(tick)

\* the calls and the invocations of func, in order
Calls == SelectSeq(log, LAMBDA e : e.kind = "call")
Invokes == SelectSeq(log, LAMBDA e : e.kind = "invoke")

\* call i is the last of its burst: the next call came wait or more later, or
\* there is none
BurstEnd(c, i) == i = Len(c) \/ c[i + 1].t - c[i].t >= wait

\* the burst that ends with call i is over: another burst has begun, or func
\* has been invoked since the last call
BurstOver(c, i) ==
  BurstEnd(c, i) /\ (i < Len(c) \/ log[Len(log)].kind = "invoke")

\* the arguments of the last call of each burst that is over
RECURSIVE LastArgs(_, _)
LastArgs(c, i) ==
  IF i > Len(c) THEN <<>>
  ELSE (IF BurstOver(c, i) THEN <<c[i].args>> ELSE <<>>) \o LastArgs(c, i + 1)

\* no invocation while a call made less than wait ago is pending
NoEarlyInvoke ==
  \A p \in 1..Len(log) : \A q \in 1..(p - 1) :
    (/\ log[p].kind = "invoke"
     /\ log[q].kind = "call"
     /\ \A k \in (q + 1)..(p - 1) : log[k].kind = "call") =>
      log[p].t - log[q].t >= wait

\* one invocation for each burst, with the arguments of its last call
OncePerBurst ==
  [k \in 1..Len(Invokes) |-> Invokes[k].args] = LastArgs(Calls, 1)

LastIs(kind) == Len(log) > 0 /\ log[Len(log)].kind = kind

====
